---- MODULE Spec2Model ----
(***************************************************************************)
(* Gesture-driven particle forest: the state-blend controller (App +       *)
(* GestureDetector + CosmicParticles useFrame) and the camera (CameraRig   *)
(* useFrame + OrbitControls).                                              *)
(*                                                                         *)
(* Numbers of the program are JavaScript numbers, i.e. IEEE-754 binary64.  *)
(* They are modelled exactly: a double is a record [neg, m, e] standing    *)
(* for (-1)^neg * m * 2^e, with m a natural number of at most 53 bits kept *)
(* as a little-endian sequence of 15-bit limbs (TLC's integers are 32 bits *)
(* wide), and every arithmetic operation computes the exact result and     *)
(* rounds it to nearest, ties to even, as the hardware does.               *)
(***************************************************************************)
EXTENDS Integers, Sequences, FiniteSets, TLC

(***************************************************************************)
(* Natural numbers of arbitrary size: little-endian limbs, no leading zero *)
(* limb, <<>> is zero.                                                     *)
(***************************************************************************)
Base == 2^15

Min2(a, b) == IF a < b THEN a ELSE b

Max2(a, b) == IF a > b THEN a ELSE b

RestOf(a) == IF a = <<>> THEN <<>> ELSE Tail(a)

FirstOf(a) == IF a = <<>> THEN 0 ELSE Head(a)

RECURSIVE Trim(_)
Trim(a) ==
  IF a = <<>> THEN <<>>
  ELSE IF a[Len(a)] = 0 THEN Trim(SubSeq(a, 1, Len(a) - 1)) ELSE a

RECURSIVE AddC(_, _, _)
AddC(a, b, c) ==
  IF a = <<>> /\ b = <<>>
  THEN (IF c = 0 THEN <<>> ELSE <<c>>)
  ELSE LET s == FirstOf(a) + FirstOf(b) + c
       IN  <<s % Base>> \o AddC(RestOf(a), RestOf(b), s \div Base)

BigAdd(a, b) == AddC(a, b, 0)

RECURSIVE SubB(_, _, _)
SubB(a, b, br) ==
  IF a = <<>> THEN <<>>
  ELSE LET d == Head(a) - FirstOf(b) - br
       IN  <<(d + Base) % Base>> \o SubB(Tail(a), RestOf(b), IF d < 0 THEN 1 ELSE 0)

\* a - b for a >= b
BigSub(a, b) == Trim(SubB(a, b, 0))

RECURSIVE MulSmallC(_, _, _)
MulSmallC(a, d, c) ==
  IF a = <<>>
  THEN (IF c = 0 THEN <<>> ELSE <<c>>)
  ELSE LET p == Head(a) * d + c
       IN  <<p % Base>> \o MulSmallC(Tail(a), d, p \div Base)

\* a * d for one limb d
BigMulSmall(a, d) == IF d = 0 THEN <<>> ELSE MulSmallC(a, d, 0)

RECURSIVE BigMul(_, _)
BigMul(a, b) ==
  IF a = <<>> \/ b = <<>> THEN <<>>
  ELSE LET hi == BigMul(a, Tail(b))
       IN  BigAdd(BigMulSmall(a, Head(b)), IF hi = <<>> THEN <<>> ELSE <<0>> \o hi)

RECURSIVE BigLessFrom(_, _, _)
BigLessFrom(a, b, i) ==
  IF i = 0 THEN FALSE
  ELSE IF a[i] # b[i] THEN a[i] < b[i] ELSE BigLessFrom(a, b, i - 1)

BigLess(a, b) ==
  IF Len(a) # Len(b) THEN Len(a) < Len(b) ELSE BigLessFrom(a, b, Len(a))

RECURSIVE SmallBitLen(_)
SmallBitLen(n) == IF n = 0 THEN 0 ELSE 1 + SmallBitLen(n \div 2)

BitLen(a) == IF a = <<>> THEN 0 ELSE 15 * (Len(a) - 1) + SmallBitLen(a[Len(a)])

\* a * 2^n
ShiftLeft(a, n) ==
  IF a = <<>> THEN <<>>
  ELSE [i \in 1..(n \div 15) |-> 0] \o BigMulSmall(a, 2^(n % 15))

\* floor(a / 2^n)
ShiftRight(a, n) ==
  LET q    == n \div 15
      r    == n % 15
      rest == IF q >= Len(a) THEN <<>> ELSE SubSeq(a, q + 1, Len(a))
  IN  Trim([i \in 1..Len(rest) |->
              (rest[i] \div 2^r)
              + (IF i < Len(rest) THEN (rest[i + 1] % 2^r) * 2^(15 - r) ELSE 0)])

\* bit i of a (bit 0 is the lowest)
TestBit(a, i) ==
  LET q == i \div 15
  IN  q < Len(a) /\ (a[q + 1] \div 2^(i % 15)) % 2 = 1

\* some bit among the lowest n bits of a is set
LowBitsNonZero(a, n) ==
  LET q == n \div 15
  IN  \/ \E i \in 1..Min2(q, Len(a)) : a[i] # 0
      \/ (q < Len(a) /\ a[q + 1] % 2^(n % 15) # 0)

(***************************************************************************)
(* IEEE-754 binary64.  A finite double is [neg, m, e]: either normal       *)
(* (2^52 <= m < 2^53, e >= -1074) or subnormal/zero (m < 2^52, e = -1074). *)
(* The program's values stay far below the overflow threshold, so          *)
(* infinities and NaN are not represented.                                 *)
(***************************************************************************)
MinExp == 0 - 1074

\* The definitions below pass intermediate results as parameters.

\* a rounded significand of 54 bits is 2^53: renormalize
Renormalize(neg, m1, e1) ==
  IF BitLen(m1) = 54
  THEN [neg |-> neg, m |-> ShiftRight(m1, 1), e |-> e1 + 1]
  ELSE [neg |-> neg, m |-> m1, e |-> e1]

\* round to nearest, ties to even: q = floor(M / 2^s) goes up when the first
\* dropped bit is set and either a lower one is too or q is odd
RoundsUp(M, s, q) ==
  TestBit(M, s - 1) /\ (LowBitsNonZero(M, s - 1) \/ FirstOf(q) % 2 = 1)

RoundShifted(neg, M, s, q, e1) ==
  Renormalize(neg, IF RoundsUp(M, s, q) THEN BigAdd(q, <<1>>) ELSE q, e1)

\* M * 2^E rounded to a significand at exponent e1
RoundAt(neg, M, E, e1) ==
  IF e1 <= E
  THEN [neg |-> neg, m |-> ShiftLeft(M, E - e1), e |-> e1]
  ELSE RoundShifted(neg, M, e1 - E, ShiftRight(M, e1 - E), e1)

\* the double nearest to (-1)^neg * M * 2^E, ties to even
RoundToDouble(neg, M, E) ==
  IF M = <<>> THEN [neg |-> neg, m |-> <<>>, e |-> MinExp]
  ELSE RoundAt(neg, M, E, Max2(E + BitLen(M) - 53, MinExp))

FMul(a, b) == RoundToDouble(a.neg # b.neg, BigMul(a.m, b.m), a.e + b.e)

\* the exact sum of (-1)^an * A * 2^e0 and (-1)^bn * B * 2^e0, rounded
\* (an exact zero sum of opposite signs is +0)
AddAligned(an, bn, A, B, e0) ==
  RoundToDouble(
    IF an = bn THEN an ELSE IF A = B THEN FALSE ELSE IF BigLess(A, B) THEN bn ELSE an,
    IF an = bn THEN BigAdd(A, B) ELSE IF BigLess(A, B) THEN BigSub(B, A) ELSE BigSub(A, B),
    e0)

FAddAt(a, b, e0) ==
  AddAligned(a.neg, b.neg, ShiftLeft(a.m, a.e - e0), ShiftLeft(b.m, b.e - e0), e0)

FAdd(a, b) ==
  IF a.m = <<>> /\ b.m = <<>> THEN [neg |-> a.neg /\ b.neg, m |-> <<>>, e |-> MinExp]
  ELSE IF a.m = <<>> THEN b
  ELSE IF b.m = <<>> THEN a
  ELSE FAddAt(a, b, Min2(a.e, b.e))

FNeg(a) == [a EXCEPT !.neg = ~a.neg]

FSub(a, b) == FAdd(a, FNeg(b))

\* magnitude order of two doubles
MagLess(a, b) == IF a.e # b.e THEN a.e < b.e ELSE BigLess(a.m, b.m)

\* a < b, as the language compares numbers (-0 equals 0)
FLess(a, b) ==
  IF a.m = <<>> /\ b.m = <<>> THEN FALSE
  ELSE IF a.neg # b.neg THEN a.neg
  ELSE IF a.neg THEN MagLess(b, a) ELSE MagLess(a, b)

FEq(a, b) == ~FLess(a, b) /\ ~FLess(b, a)

FLeq(a, b) == ~FLess(b, a)

\* the double of a small integer n >= 0 times 2^e (exact for n < 2^15)
Dyadic(n, e) == RoundToDouble(FALSE, IF n = 0 THEN <<>> ELSE <<n>>, e)

FZero == Dyadic(0, 0)

FOne == Dyadic(1, 0)

RECURSIVE DivSmallFrom(_, _, _)
\* <<quotient limbs, remainder>> of the number made of the limbs a[i..Len(a)] by d
DivSmallFrom(a, d, i) ==
  IF i > Len(a) THEN <<<<>>, 0>>
  ELSE LET hi  == DivSmallFrom(a, d, i + 1)
           cur == hi[2] * Base + a[i]
       IN  <<<<cur \div d>> \o hi[1], cur % d>>

\* a quotient with a nonzero remainder gets a sticky lowest bit
Sticky(qt, rem) == IF rem # 0 /\ FirstOf(qt) % 2 = 0 THEN BigAdd(qt, <<1>>) ELSE qt

DecimalOf(qr) == RoundToDouble(FALSE, Sticky(Trim(qr[1]), qr[2]), 0 - 120)

\* the double that the decimal literal p/q of the source denotes (0 < q < 2^15):
\* the quotient to 120 binary places, with a sticky lowest bit, rounded once
Decimal(p, q) ==
  IF p = 0 THEN RoundToDouble(FALSE, <<>>, 0)
  ELSE DecimalOf(DivSmallFrom(ShiftLeft(<<p>>, 120), q, 1))

FDivSmallOf(neg, qr, e) == RoundToDouble(neg, Sticky(Trim(qr[1]), qr[2]), e - 64)

\* a / d for a small positive integer d: the quotient to 64 more binary places,
\* with a sticky lowest bit, rounded once
FDivSmall(a, d) ==
  IF a.m = <<>> THEN a
  ELSE FDivSmallOf(a.neg, DivSmallFrom(ShiftLeft(a.m, 64), d, 1), a.e)

\* the double of the integer n (|n| < 2^15) times 2^e
SignedDyadic(n, e) == IF n < 0 THEN FNeg(Dyadic(0 - n, e)) ELSE Dyadic(n, e)

\* The conversion of a double to the 32-bit float of a shader uniform: the
\* same rounding to a significand of 24 bits (no uniform here is large enough
\* to overflow).
RenormalizeSingle(neg, m1, e1) ==
  IF BitLen(m1) = 25
  THEN [neg |-> neg, m |-> ShiftRight(m1, 1), e |-> e1 + 1]
  ELSE [neg |-> neg, m |-> m1, e |-> e1]

RoundShiftedSingle(neg, M, s, q, e1) ==
  RenormalizeSingle(neg, IF RoundsUp(M, s, q) THEN BigAdd(q, <<1>>) ELSE q, e1)

RoundAtSingle(neg, M, E, e1) ==
  IF e1 <= E
  THEN [neg |-> neg, m |-> ShiftLeft(M, E - e1), e |-> e1]
  ELSE RoundShiftedSingle(neg, M, e1 - E, ShiftRight(M, e1 - E), e1)

\* the 24-bit significand s at exponent e, written as a double (exact)
SingleAsDouble(s) == RoundToDouble(s.neg, s.m, s.e)

ToFloat32(a) ==
  IF a.m = <<>> THEN a
  ELSE SingleAsDouble(RoundAtSingle(a.neg, a.m, a.e,
                                    Max2(a.e + BitLen(a.m) - 24, 0 - 149)))

\* THREE.MathUtils.lerp(x, y, t) = (1 - t) * x + t * y
Lerp(a, b, t) == FAdd(FMul(FSub(FOne, t), a), FMul(t, b))

\* THREE.Vector3.lerp(v, alpha): this.c += (v.c - this.c) * alpha, per component
VecLerp(p, v, alpha) ==
  [c \in {"x", "y", "z"} |-> FAdd(p[c], FMul(FSub(v[c], p[c]), alpha))]

(***************************************************************************)
(* The program's constants.                                                *)
(***************************************************************************)
\* a smaller smoothing factor (for C9's sensitivity)
dtSlow == Decimal(3, 100)

\* const dt = 0.04 in the particle frame callback
dt == Decimal(4, 100)

\* if (score > 0.5)
ScoreThreshold == Decimal(5, 10)

\* the literal 0.5 of the coordinate mapping
Half == Decimal(5, 10)

WORLD_X_RANGE == 30

WORLD_Y_RANGE == 20

\* the interface's colours
Palette == {"#1a4dcc", "#8a2be2", "#ffd700", "#dc143c", "#00fa9a"}

\* the recognizer's category names the switch of handleGestureLogic knows
KnownGestures == {"Closed_Fist", "Open_Palm", "Victory", "Thumb_Up", "Pointing_Up"}

InactiveHand == [x |-> FZero, y |-> FZero, active |-> FALSE]

NoHands == [left |-> InactiveHand, right |-> InactiveHand]

Vec3(px, py, pz) == [x |-> px, y |-> py, z |-> pz]

(***************************************************************************)
(* CameraRig: the targets of one frame.  The camera is kept in the         *)
(* spherical coordinates (radius, theta = azimuth, phi = polar angle) that  *)
(* the callback reads with setFromVector3 and writes with setFromSpherical; *)
(* the conversion to and from the Cartesian position is not modelled, and   *)
(* the orientation follows from the position (the camera looks at the      *)
(* origin).                                                                *)
(***************************************************************************)
\* Math.PI = 0x1.921fb54442d18p+1
Pi == [neg |-> FALSE, m |-> <<11544, 10376, 2029, 201>>, e |-> 0 - 51]

\* the Canvas camera at position [0, 5, 25]: radius = sqrt(650),
\* theta = atan2(0, 25), phi = acos(5 / sqrt(650))
InitialCamera ==
  [radius |-> [neg |-> FALSE, m |-> <<15348, 28077, 31482, 203>>, e |-> 0 - 48],
   theta  |-> FZero,
   phi    |-> [neg |-> FALSE, m |-> <<18519, 10826, 26060, 175>>, e |-> 0 - 52]]

\* a variant that counts the left hand only (for C20's sensitivity)
HandsCountLeftOnly(h) == IF h.left.active THEN 1 ELSE 0

\* a variant that counts both hands whether active or not (for C14's sensitivity)
HandsCountBoth(h) ==
  (IF h.left.active THEN 1 ELSE 1) + (IF h.right.active THEN 1 ELSE 1)

HandsCount(h) ==
  (IF h.left.active THEN 1 ELSE 0) + (IF h.right.active THEN 1 ELSE 0)

TargetSumWithRight(sum, h, c) == IF h.right.active THEN FAdd(sum, h.right[c]) ELSE sum

\* targetX (c = "x") and targetY (c = "y"): the sum over the active hands
TargetSum(h, c) ==
  TargetSumWithRight(IF h.left.active THEN FAdd(FZero, h.left[c]) ELSE FZero, h, c)

\* a variant that always divides by two (for C16's sensitivity)
AvgOfTwo(h, c) == FDivSmall(TargetSum(h, c), 2)

\* avgX and avgY
Avg(h, c) == FDivSmall(TargetSum(h, c), HandsCount(h))

TargetAzimuth(h) == FMul(FDivSmall(Avg(h, "x"), 15), Dyadic(3, 0 - 1))

TargetPolar(h, state) ==
  IF state = "SPREAD"
  THEN FSub(FDivSmall(Pi, 2), FOne)
  ELSE FSub(FSub(FDivSmall(Pi, 2), Decimal(2, 10)),
            FMul(FDivSmall(Avg(h, "y"), 20), Half))

TargetRadius(state) == IF state = "SPREAD" THEN Dyadic(45, 0) ELSE Dyadic(25, 0)

ZoomSpeed(state) == IF state = "SPREAD" THEN FOne ELSE Dyadic(2, 0)

RigTargets(h, state) ==
  [targetAzimuth |-> TargetAzimuth(h),
   targetPolar   |-> TargetPolar(h, state),
   targetRadius  |-> TargetRadius(state),
   zoomSpeed     |-> ZoomSpeed(state)]

\* the spherical coordinates after the three lerps
RigMoved(c, t, delta) ==
  [theta  |-> Lerp(c.theta, t.targetAzimuth, FMul(delta, Dyadic(2, 0))),
   phi    |-> Lerp(c.phi, t.targetPolar, FMul(delta, Dyadic(2, 0))),
   radius |-> Lerp(c.radius, t.targetRadius, FMul(delta, t.zoomSpeed))]

\* App: handsActive, and the enabled prop of OrbitControls
HandsActive(h) == h.left.active \/ h.right.active

OrbitControlsEnabled(h) == ~HandsActive(h)

VARIABLES
  \* App
  gestureState, isRaining, isStormy, isPlayingMusic, baseColor,
  detectedGestureName, hands,
  \* GestureDetector
  loaded, error, gestureRecognizerRef, lastVideoTimeRef, requestRef,
  initPc, srcObject, loadedDataFired,
  \* predictWebcam's local "results": <<>> when the last call had no result
  \* object to process, <<r>> when it processed the result object r
  results,
  \* the component is mounted; the video element's ref (React clears it on
  \* unmount); the tracks of the stream getUserMedia returned
  mounted, videoRef, tracks,
  \* CosmicParticles: the shader uniforms and the targets the last frame computed
  uTime, uFormRatio, uSpreadRatio, uRainRatio, uWaveRatio, uBaseColor,
  uLeftHandPos, uLeftHandActive, uRightHandPos, uRightHandActive,
  targetForm, targetSpread, targetRain, targetWave,
  \* the camera's position in spherical coordinates about the origin, and the
  \* targets the CameraRig callback computed in the last frame: <<>> when it
  \* left the camera alone, <<t>> when it wrote the camera position
  camera, rigTargets

appVars == <<gestureState, isRaining, isStormy, isPlayingMusic, baseColor,
             detectedGestureName, hands>>

detectorVars == <<loaded, error, gestureRecognizerRef, lastVideoTimeRef, requestRef,
                  initPc, srcObject, loadedDataFired, results,
                  mounted, videoRef, tracks>>

cameraVars == <<camera, rigTargets>>

particleVars == <<uTime, uFormRatio, uSpreadRatio, uRainRatio, uWaveRatio, uBaseColor,
                  uLeftHandPos, uLeftHandActive, uRightHandPos, uRightHandActive,
                  targetForm, targetSpread, targetRain, targetWave>>

vars == <<appVars, detectorVars, particleVars, cameraVars>>

Init ==
  /\ gestureState = "IDLE"
  /\ isRaining = FALSE
  /\ isStormy = FALSE
  /\ isPlayingMusic = FALSE
  /\ baseColor = "#1a4dcc"
  /\ detectedGestureName = "None"
  /\ hands = NoHands
  /\ loaded = FALSE
  /\ error = "null"
  /\ gestureRecognizerRef = "null"
  /\ lastVideoTimeRef = 0 - 1
  /\ requestRef = "none"
  /\ initPc = "awaitModel"
  /\ srcObject = "null"
  /\ loadedDataFired = FALSE
  /\ results = <<>>
  /\ mounted = TRUE
  /\ videoRef = "video"
  /\ tracks = "none"
  /\ uTime = 0
  /\ uFormRatio = FZero
  /\ uSpreadRatio = FZero
  /\ uRainRatio = FZero
  /\ uWaveRatio = FZero
  /\ uBaseColor = "#1a4dcc"
  /\ uLeftHandPos = Vec3(FZero, FZero, FZero)
  /\ uLeftHandActive = FZero
  /\ uRightHandPos = Vec3(FZero, FZero, FZero)
  /\ uRightHandActive = FZero
  /\ targetForm = 0
  /\ targetSpread = 0
  /\ targetRain = 0
  /\ targetWave = 0
  /\ camera = InitialCamera
  /\ rigTargets = <<>>

(***************************************************************************)
(* App: the setters handed to the gesture detector.                        *)
(***************************************************************************)
\* a variant of Toggle that ignores the forced value (for C2's sensitivity)
ToggleIgnoringForce(prev, force) == ~prev

\* toggleRain / toggleStorm: prev => force !== undefined ? force : !prev
\* (the optional argument is <<>> when absent and <<force>> when given)
Toggle(prev, force) == IF force # <<>> THEN force[1] ELSE ~prev

\* variants of handleGestureLogic (for the sensitivity of C3, C4 and C5): the
\* 'Closed_Fist' case without its break, falling through to 'Open_Palm'
HandleGestureLogicFallThrough(gestureName, gs, rain, storm) ==
  CASE gestureName = "Closed_Fist" -> <<"SPREAD", rain, storm>>
    [] gestureName = "Open_Palm"   -> <<"SPREAD", rain, storm>>
    [] gestureName = "Victory"     -> <<gs, TRUE, storm>>
    [] gestureName = "Thumb_Up"    -> <<gs, rain, TRUE>>
    [] gestureName = "Pointing_Up" -> <<"IDLE", FALSE, FALSE>>
    [] OTHER                       -> <<gs, rain, storm>>

\* the 'Pointing_Up' case without onStormToggle(false)
HandleGestureLogicStormKept(gestureName, gs, rain, storm) ==
  CASE gestureName = "Closed_Fist" -> <<"TREES", rain, storm>>
    [] gestureName = "Open_Palm"   -> <<"SPREAD", rain, storm>>
    [] gestureName = "Victory"     -> <<gs, TRUE, storm>>
    [] gestureName = "Thumb_Up"    -> <<gs, rain, TRUE>>
    [] gestureName = "Pointing_Up" -> <<"IDLE", FALSE, storm>>
    [] OTHER                       -> <<gs, rain, storm>>

\* a default case that resets the discrete state
HandleGestureLogicDefaultIdle(gestureName, gs, rain, storm) ==
  CASE gestureName = "Closed_Fist" -> <<"TREES", rain, storm>>
    [] gestureName = "Open_Palm"   -> <<"SPREAD", rain, storm>>
    [] gestureName = "Victory"     -> <<gs, TRUE, storm>>
    [] gestureName = "Thumb_Up"    -> <<gs, rain, TRUE>>
    [] gestureName = "Pointing_Up" -> <<"IDLE", FALSE, FALSE>>
    [] OTHER                       -> <<"IDLE", rain, storm>>

\* handleGestureLogic: the discrete state <<gestureState, isRaining, isStormy>>
\* after the switch on the gesture name
HandleGestureLogic(gestureName, gs, rain, storm) ==
  CASE gestureName = "Closed_Fist" -> <<"TREES", rain, storm>>
    [] gestureName = "Open_Palm"   -> <<"SPREAD", rain, storm>>
    [] gestureName = "Victory"     -> <<gs, Toggle(rain, <<TRUE>>), storm>>
    [] gestureName = "Thumb_Up"    -> <<gs, rain, Toggle(storm, <<TRUE>>)>>
    [] gestureName = "Pointing_Up" -> <<"IDLE", Toggle(rain, <<FALSE>>), Toggle(storm, <<FALSE>>)>>
    [] OTHER                       -> <<gs, rain, storm>>

\* a variant with score >= 0.5 (for C1's sensitivity)
ScoreRegistersInclusive(score) == FLeq(ScoreThreshold, score)

\* if (score > 0.5)
ScoreRegisters(score) == FLess(ScoreThreshold, score)

\* the first category of the first hand's gestures, when it registers:
\* <<gestureFound, name reported>>.  A missing array of the result is the empty
\* sequence: the code treats the two alike (a && a.length > 0).
GestureFound(gestures) ==
  IF /\ Len(gestures) > 0
     /\ Len(gestures[1]) > 0
     /\ ScoreRegisters(gestures[1][1].score)
  THEN <<TRUE, gestures[1][1].categoryName>>
  ELSE <<FALSE, "None">>

\* the handedness of the landmark set at the given (0-based) index
Handedness(handedness, index) ==
  IF Len(handedness) > index
  THEN IF Len(handedness[index + 1]) > 0
       THEN handedness[index + 1][1].categoryName
       ELSE (IF index = 0 THEN "Left" ELSE "Right")
  ELSE (IF index = 0 THEN "Left" ELSE "Right")

\* the hand data of one landmark set: landmark 9 (lm9 = <<point>>, or <<>> when
\* the set is too short to have one) mapped to world units
HandData(lm) ==
  [x      |-> FMul(FSub(Half, lm.x), Dyadic(WORLD_X_RANGE, 0)),
   y      |-> FMul(FSub(Half, lm.y), Dyadic(WORLD_Y_RANGE, 0)),
   active |-> TRUE]

\* if (handedness === 'Right') newHands.right = handData else newHands.left = handData
WithHand(newHands, handedness, handData) ==
  IF handedness = "Right"
  THEN [newHands EXCEPT !.right = handData]
  ELSE [newHands EXCEPT !.left = handData]

RECURSIVE NewHandsFrom(_, _, _, _)
\* results.landmarks.forEach from the given (0-based) index on
NewHandsFrom(landmarks, handedness, index, newHands) ==
  IF index >= Len(landmarks) THEN newHands
  ELSE NewHandsFrom(landmarks, handedness, index + 1,
         WithHand(newHands, Handedness(handedness, index),
                  HandData(landmarks[index + 1].lm9[1])))

NewHands(landmarks, handedness) == NewHandsFrom(landmarks, handedness, 0, NoHands)

\* reading lm.x of a landmark set that has no landmark 9 throws
HandTrackingThrows(landmarks) == \E i \in 1..Len(landmarks) : landmarks[i].lm9 = <<>>

(***************************************************************************)
(* The inputs the environment draws from.                                  *)
(***************************************************************************)
\* The video's currentTime is only ever tested for being the time of the last
\* processed frame or not, so two values stand for all: each tick sees either
\* the time it saw last or the other one.
VideoTimes == {0, 1}

\* the category names of the recognizer's model
Labels == KnownGestures \cup {"None", "Thumb_Down"}

Scores == {Decimal(25, 100), Decimal(5, 10), Decimal(51, 100), Decimal(9, 10)}

GestureInputs ==
  {<<>>, << <<>> >>}
    \cup {<< <<[categoryName |-> l, score |-> sc]>> >> : l \in Labels, sc \in Scores}

\* landmark sets: landmark 9 in normalized image coordinates
LandmarksA == [lm9 |-> <<[x |-> Dyadic(1, 0 - 2), y |-> Dyadic(3, 0 - 2)]>>]

LandmarksB == [lm9 |-> <<[x |-> Dyadic(3, 0 - 2), y |-> Dyadic(1, 0 - 1)]>>]

LandmarksShort == [lm9 |-> <<>>]

\* landmark sets whose landmark 9 maps to x = 0 and, to the last bit or so,
\* to x = 10 and x = -10 (y = 0)
LandmarksCentre == [lm9 |-> <<[x |-> Dyadic(1, 0 - 1), y |-> Dyadic(1, 0 - 1)]>>]

LandmarksTen == [lm9 |-> <<[x |-> Decimal(1, 6), y |-> Dyadic(1, 0 - 1)]>>]

LandmarksMinusTen == [lm9 |-> <<[x |-> Decimal(5, 6), y |-> Dyadic(1, 0 - 1)]>>]

Category(name) == <<[categoryName |-> name]>>

HandInputs ==
  { [landmarks |-> <<>>, handedness |-> <<>>],
    [landmarks |-> <<LandmarksA>>, handedness |-> <<Category("Right")>>],
    [landmarks |-> <<LandmarksA>>, handedness |-> <<>>],
    [landmarks |-> <<LandmarksA, LandmarksB>>,
     handedness |-> <<Category("Right"), Category("Left")>>],
    [landmarks |-> <<LandmarksShort>>, handedness |-> <<Category("Left")>>] }

\* no hand in view
NoHandInput == [landmarks |-> <<>>, handedness |-> <<>>]

\* up to two landmark sets with every shape of the handedness array: labels
\* present, the array missing or short, entries empty, both labels the same
HandednessInputs ==
  { NoHandInput,
    [landmarks |-> <<LandmarksCentre>>, handedness |-> <<Category("Left")>>],
    [landmarks |-> <<LandmarksTen>>, handedness |-> <<Category("Right")>>],
    [landmarks |-> <<LandmarksTen>>, handedness |-> <<>>],
    [landmarks |-> <<LandmarksTen>>, handedness |-> << <<>> >>],
    [landmarks |-> <<LandmarksMinusTen, LandmarksTen>>,
     handedness |-> <<Category("Left"), Category("Right")>>],
    [landmarks |-> <<LandmarksMinusTen, LandmarksTen>>,
     handedness |-> <<Category("Right"), Category("Left")>>],
    [landmarks |-> <<LandmarksMinusTen, LandmarksTen>>, handedness |-> <<>>],
    [landmarks |-> <<LandmarksMinusTen, LandmarksTen>>,
     handedness |-> << <<>>, <<>> >>],
    [landmarks |-> <<LandmarksMinusTen, LandmarksTen>>,
     handedness |-> <<Category("Left"), Category("Left")>>],
    [landmarks |-> <<LandmarksMinusTen, LandmarksTen>>,
     handedness |-> <<Category("Right")>>] }

\* the recognizer sees no gesture
NoGesture == {<<>>}

ResultsOf(gestureInputs, handInputs) ==
  { [gestures |-> g, landmarks |-> h.landmarks, handedness |-> h.handedness] :
      g \in gestureInputs, h \in handInputs }

\* what one call of recognizeForVideo does: <<throws, results>>
Recognitions(gestureInputs, handInputs) ==
  {<<TRUE, <<>> >>, <<FALSE, <<>> >>}
    \cup {<<FALSE, <<r>> >> : r \in ResultsOf(gestureInputs, handInputs)}

\* what processing a result computes before it touches the state: the gesture
\* part, then the hand part, which throws on a landmark set without landmark 9
ProcessedAs(found, throws, r) ==
  [gestureFound |-> found[1],
   name         |-> found[2],
   throws       |-> throws,
   newHands     |-> IF throws THEN NoHands ELSE NewHands(r.landmarks, r.handedness)]

ProcessResults(r) ==
  ProcessedAs(GestureFound(r.gestures), HandTrackingThrows(r.landmarks), r)

\* ProcessResults, tabulated once for the results of this model
Processed ==
  [r \in ResultsOf(GestureInputs, HandInputs) \cup ResultsOf(NoGesture, HandednessInputs)
     |-> ProcessResults(r)]

(***************************************************************************)
(* GestureDetector.                                                        *)
(***************************************************************************)
\* predictWebcam from "if (results)" on, for what ProcessResults computed (r)
\* and the discrete state the gesture part leaves (after)
PublishResults(r, after) ==
  /\ detectedGestureName' = r.name
  /\ gestureState' = after[1]
  /\ isRaining' = after[2]
  /\ isStormy' = after[3]
  /\ hands' = IF r.throws THEN hands ELSE r.newHands

HandleResults(r) ==
  PublishResults(r, IF r.gestureFound
                    THEN HandleGestureLogic(r.name, gestureState, isRaining, isStormy)
                    ELSE <<gestureState, isRaining, isStormy>>)

\* a variant of predictWebcam without the test of the video's time (for
\* C13's sensitivity)
PredictWebcamEveryTick(currentTime, throws, returned) ==
  /\ UNCHANGED <<loaded, error, gestureRecognizerRef, initPc, srcObject,
                 mounted, videoRef, tracks,
                 isPlayingMusic, baseColor, particleVars, cameraVars>>
  /\ IF gestureRecognizerRef = "null" \/ videoRef = "null"
     THEN UNCHANGED <<requestRef, results, lastVideoTimeRef, gestureState,
                      isRaining, isStormy, detectedGestureName, hands>>
     ELSE /\ requestRef' = "pending"
          /\ lastVideoTimeRef' = currentTime
          /\ IF throws \/ returned = <<>>
             THEN /\ results' = <<>>
                  /\ UNCHANGED <<gestureState, isRaining, isStormy,
                                 detectedGestureName, hands>>
             ELSE /\ results' = returned
                  /\ HandleResults(Processed[returned[1]])

\* predictWebcam, called with the video's currentTime and what
\* recognizeForVideo does on this call: it throws, or returns a value (<<>> for
\* a falsy one, <<r>> for a result object)
PredictWebcam(currentTime, throws, returned) ==
  /\ UNCHANGED <<loaded, error, gestureRecognizerRef, initPc, srcObject,
                 mounted, videoRef, tracks,
                 isPlayingMusic, baseColor, particleVars, cameraVars>>
  /\ IF gestureRecognizerRef = "null" \/ videoRef = "null"
     THEN UNCHANGED <<requestRef, results, lastVideoTimeRef, gestureState,
                      isRaining, isStormy, detectedGestureName, hands>>
     ELSE /\ requestRef' = "pending"
          /\ IF currentTime # lastVideoTimeRef
             THEN /\ lastVideoTimeRef' = currentTime
                  /\ IF throws \/ returned = <<>>
                     THEN /\ results' = <<>>
                          /\ UNCHANGED <<gestureState, isRaining, isStormy,
                                         detectedGestureName, hands>>
                     ELSE /\ results' = returned
                          /\ HandleResults(Processed[returned[1]])
             ELSE /\ results' = <<>>
                  /\ UNCHANGED <<lastVideoTimeRef, gestureState, isRaining, isStormy,
                                 detectedGestureName, hands>>

\* init: the model loads; setLoaded(true) (without effect once unmounted);
\* startWebcam() asks for the camera
ModelLoaded(mediaDevices) ==
  /\ initPc = "awaitModel"
  /\ gestureRecognizerRef' = "recognizer"
  /\ loaded' = mounted
  /\ initPc' = IF mediaDevices THEN "awaitCamera" ELSE "done"
  /\ UNCHANGED <<appVars, particleVars, cameraVars, error, lastVideoTimeRef, requestRef,
                 srcObject, loadedDataFired, results, mounted, videoRef, tracks>>

\* init: loading the model throws; setError (without effect once unmounted)
ModelFailed ==
  /\ initPc = "awaitModel"
  /\ error' = IF mounted THEN "Failed to load gesture model" ELSE error
  /\ initPc' = "done"
  /\ UNCHANGED <<appVars, particleVars, cameraVars, loaded, gestureRecognizerRef,
                 lastVideoTimeRef, requestRef, srcObject, loadedDataFired, results,
                 mounted, videoRef, tracks>>

\* startWebcam: getUserMedia resolves with a live stream; if the video element
\* is there the stream is attached and the 'loadeddata' listener added
CameraGranted ==
  /\ initPc = "awaitCamera"
  /\ tracks' = "live"
  /\ srcObject' = IF videoRef # "null" THEN "stream" ELSE srcObject
  /\ initPc' = "done"
  /\ UNCHANGED <<appVars, particleVars, cameraVars, loaded, error, gestureRecognizerRef,
                 lastVideoTimeRef, requestRef, loadedDataFired, results,
                 mounted, videoRef>>

\* a variant of the rejection that reports the error and asks for the camera
\* again (for C17's sensitivity)
CameraDeniedRetrying ==
  /\ initPc = "awaitCamera"
  /\ error' = IF mounted THEN "Camera access denied" ELSE error
  /\ initPc' = "awaitCamera"
  /\ UNCHANGED <<appVars, particleVars, cameraVars, loaded, gestureRecognizerRef,
                 lastVideoTimeRef, requestRef, srcObject, loadedDataFired, results,
                 mounted, videoRef, tracks>>

\* startWebcam: getUserMedia rejects; setError (without effect once unmounted)
CameraDenied ==
  /\ initPc = "awaitCamera"
  /\ error' = IF mounted THEN "Camera access denied" ELSE error
  /\ initPc' = "done"
  /\ UNCHANGED <<appVars, particleVars, cameraVars, loaded, gestureRecognizerRef,
                 lastVideoTimeRef, requestRef, srcObject, loadedDataFired, results,
                 mounted, videoRef, tracks>>

\* the video's 'loadeddata' event calls predictWebcam (the listener is never
\* removed)
LoadedData(currentTime, throws, returned) ==
  /\ srcObject = "stream"
  /\ ~loadedDataFired
  /\ loadedDataFired' = TRUE
  /\ PredictWebcam(currentTime, throws, returned)

\* the animation frame requested by predictWebcam calls it again
AnimationFrame(currentTime, throws, returned) ==
  /\ requestRef = "pending"
  /\ PredictWebcam(currentTime, throws, returned)
  /\ UNCHANGED loadedDataFired

\* the effect's cleanup, run when the component unmounts.  Whether
\* videoRef.current still holds the element while the cleanup runs depends on
\* the React version (refAttached): the cleanup stops the tracks only if it
\* does and a stream is attached.  cancelAnimationFrame drops the pending
\* callback; React then leaves the ref null.
Unmount(refAttached) ==
  /\ mounted
  /\ mounted' = FALSE
  /\ tracks' = IF refAttached /\ srcObject # "null" THEN "stopped" ELSE tracks
  /\ requestRef' = "none"
  /\ videoRef' = "null"
  /\ UNCHANGED <<appVars, particleVars, cameraVars, loaded, error, gestureRecognizerRef,
                 lastVideoTimeRef, initPc, srcObject, loadedDataFired, results>>

(***************************************************************************)
(* Interface: the commands of the control panel.                           *)
(***************************************************************************)
\* onSetColor
SetColor(color) ==
  /\ baseColor' = color
  /\ UNCHANGED <<gestureState, isRaining, isStormy, isPlayingMusic,
                 detectedGestureName, hands, detectorVars, particleVars, cameraVars>>

\* toggleAudio (the audio element is always rendered)
ToggleAudio ==
  /\ isPlayingMusic' = ~isPlayingMusic
  /\ UNCHANGED <<gestureState, isRaining, isStormy, baseColor,
                 detectedGestureName, hands, detectorVars, particleVars, cameraVars>>

(***************************************************************************)
(* CosmicParticles: the two frame callbacks of one rendered frame.         *)
(***************************************************************************)
\* variants of the targets that leave the storm out (for the sensitivity of C7
\* and C6)
TargetFormIgnoringStorm(gs, stormy) ==
  IF gs = "TREES" THEN 1
  ELSE IF gs = "SPREAD" THEN 1
  ELSE 0

TargetSpreadIgnoringStorm(gs, stormy) ==
  IF gs = "TREES" THEN 0
  ELSE IF gs = "SPREAD" THEN 1
  ELSE 0

TargetForm(gs, stormy) ==
  IF gs = "TREES" \/ stormy THEN 1
  ELSE IF gs = "SPREAD" THEN 1
  ELSE 0

TargetSpread(gs, stormy) ==
  IF gs = "TREES" \/ stormy THEN 0
  ELSE IF gs = "SPREAD" THEN 1
  ELSE 0

TargetRain(raining) == IF raining THEN 1 ELSE 0

TargetWave(stormy) == IF stormy THEN 1 ELSE 0

\* variants of the smoothing step (for the sensitivity of C8 and C10): the
\* ratio set to its target, and the step added without subtracting the ratio
SmoothSnap(ratio, target) == Dyadic(target, 0)

SmoothAccumulate(ratio, target) == FAdd(ratio, FMul(Dyadic(target, 0), dt))

\* the smoothing step of one ratio
Smooth(ratio, target) == Lerp(ratio, Dyadic(target, 0), dt)

\* the literals 0.2 and 0.1 of the hand uniforms' smoothing, and the hands' depth 5.0
HandPosRate == Decimal(2, 10)

HandActiveRate == Decimal(1, 10)

HandDepth == Dyadic(5, 0)

\* the smoothing of a hand's position uniform (only while the hand is active)
HandPosStep(pos, hand) ==
  IF hand.active
  THEN VecLerp(pos, Vec3(hand.x, hand.y, HandDepth), HandPosRate)
  ELSE pos

\* the smoothing of a hand's activity uniform
HandActiveStep(value, hand) ==
  Lerp(value, IF hand.active THEN FOne ELSE FZero, HandActiveRate)

\* The vertex shader's interaction logic, for one hand and a particle at
\* distance dist from the hand's position uniform: the hand adds to
\* interactOffset and interactGlow exactly when its activity uniform (a 32-bit
\* float on the GPU) exceeds 0.5 and the particle is nearer than the radius.
InteractionRadius == Dyadic(8, 0)

\* a variant without the test of the activity uniform (for C18's sensitivity)
HandInteractsUngated(active, dist) == FLess(dist, InteractionRadius)

HandInteracts(active, dist) ==
  FLess(Half, ToFloat32(active)) /\ FLess(dist, InteractionRadius)

\* CameraRig's frame callback
CameraRig(delta) ==
  IF HandsCount(hands) > 0
  THEN /\ rigTargets' = <<RigTargets(hands, gestureState)>>
       /\ camera' = RigMoved(camera, rigTargets'[1], delta)
  ELSE /\ rigTargets' = <<>>
       /\ camera' = camera

\* OrbitControls: while enabled, a drag of the mouse moves the camera
OrbitDrag(position) ==
  /\ OrbitControlsEnabled(hands)
  /\ camera' = position
  /\ UNCHANGED <<appVars, detectorVars, particleVars, rigTargets>>

\* one rendered frame, delta seconds after the last: the frame callbacks of
\* CosmicParticles and of CameraRig; uTime counts the frames
Frame(delta) ==
  /\ CameraRig(delta)
  /\ uTime' = uTime + 1
  /\ uBaseColor' = baseColor
  /\ targetForm' = TargetForm(gestureState, isStormy)
  /\ targetSpread' = TargetSpread(gestureState, isStormy)
  /\ targetRain' = TargetRain(isRaining)
  /\ targetWave' = TargetWave(isStormy)
  /\ uFormRatio' = Smooth(uFormRatio, targetForm')
  /\ uSpreadRatio' = Smooth(uSpreadRatio, targetSpread')
  /\ uRainRatio' = Smooth(uRainRatio, targetRain')
  /\ uWaveRatio' = Smooth(uWaveRatio, targetWave')
  /\ uLeftHandPos' = HandPosStep(uLeftHandPos, hands.left)
  /\ uLeftHandActive' = HandActiveStep(uLeftHandActive, hands.left)
  /\ uRightHandPos' = HandPosStep(uRightHandPos, hands.right)
  /\ uRightHandActive' = HandActiveStep(uRightHandActive, hands.right)
  /\ UNCHANGED <<appVars, detectorVars>>

\* the colours the user picks in this model
ColorChoices == {"#1a4dcc", "#ffd700"}

AllRecognitions == Recognitions(GestureInputs, HandInputs)

\* the time between two frames where nothing delays them: 1/64 s
FrameDelta == Dyadic(1, 0 - 6)

(***************************************************************************)
(* The controller: the detector's start-up, the prediction loop and the    *)
(* control panel, in any interleaving.  The frame callbacks read the App   *)
(* state and write only the uniforms and the camera, which nothing here    *)
(* reads, so the controller is checked without them.                       *)
(***************************************************************************)
Next ==
  \/ \E mediaDevices \in BOOLEAN : ModelLoaded(mediaDevices)
  \/ ModelFailed
  \/ CameraGranted
  \/ CameraDenied
  \/ \E t \in VideoTimes, rec \in AllRecognitions : LoadedData(t, rec[1], rec[2])
  \/ \E t \in VideoTimes, rec \in AllRecognitions : AnimationFrame(t, rec[1], rec[2])
  \/ \E color \in ColorChoices : SetColor(color)
  \/ ToggleAudio
  \/ \E refAttached \in BOOLEAN : Unmount(refAttached)

Spec == Init /\ [][Next]_vars

(***************************************************************************)
(* The rendering: the prediction loop together with the rendered frames.   *)
(* The ratios are exact doubles, so every history of targets is a chain of *)
(* states of its own; gestures arrive before the first frame and again     *)
(* from frame RetargetFrame on, and the frames run to MaxFrames.           *)
(***************************************************************************)
MaxFrames == 78

RetargetFrame == 77

GestureWindow == uTime = 0 \/ uTime >= RetargetFrame

\* the gestures of the rendering: each known label at confidence 0.9, no hands
RenderGestures ==
  {<< <<[categoryName |-> l, score |-> Decimal(9, 10)]>> >> : l \in KnownGestures}

RenderRecognitions ==
  {<<FALSE, <<r>> >> : r \in ResultsOf(RenderGestures, {NoHandInput})}

RenderNext ==
  \/ ModelLoaded(TRUE)
  \/ CameraGranted
  \/ /\ GestureWindow
     /\ \E t \in VideoTimes, rec \in RenderRecognitions : LoadedData(t, rec[1], rec[2])
  \/ /\ GestureWindow
     /\ \E t \in VideoTimes, rec \in RenderRecognitions : AnimationFrame(t, rec[1], rec[2])
  \/ /\ uTime < MaxFrames
     /\ Frame(FrameDelta)

RenderSpec == Init /\ [][RenderNext]_vars

(***************************************************************************)
(* The long run: a ratio held on one target until the doubles stop moving. *)
(* The gestures are the fist and the reset, before the first frame and     *)
(* again from frame LongRetargetFrame on.                                  *)
(***************************************************************************)
LongMaxFrames == 839

LongRetargetFrame == 838

LongGestureWindow == uTime = 0 \/ uTime >= LongRetargetFrame

LongGestures ==
  {<< <<[categoryName |-> l, score |-> Decimal(9, 10)]>> >> :
     l \in {"Closed_Fist", "Pointing_Up"}}

LongRecognitions ==
  {<<FALSE, <<r>> >> : r \in ResultsOf(LongGestures, {NoHandInput})}

LongNext ==
  \/ ModelLoaded(TRUE)
  \/ CameraGranted
  \/ /\ LongGestureWindow
     /\ \E t \in VideoTimes, rec \in LongRecognitions : LoadedData(t, rec[1], rec[2])
  \/ /\ LongGestureWindow
     /\ \E t \in VideoTimes, rec \in LongRecognitions : AnimationFrame(t, rec[1], rec[2])
  \/ /\ uTime < LongMaxFrames
     /\ Frame(FrameDelta)

LongSpec == Init /\ [][LongNext]_vars

(***************************************************************************)
(* The hands: the prediction loop with every shape of hand result and no   *)
(* gesture, together with the rendered frames.  Results arrive before the  *)
(* first frame and again at frame HandRetargetFrame; the frames run to     *)
(* HandMaxFrames.                                                          *)
(***************************************************************************)
HandMaxFrames == 37

HandRetargetFrame == 30

HandWindow == uTime = 0 \/ uTime = HandRetargetFrame

HandRecognitions ==
  {<<FALSE, <<r>> >> : r \in ResultsOf(NoGesture, HandednessInputs)}

HandNext ==
  \/ ModelLoaded(TRUE)
  \/ CameraGranted
  \/ /\ HandWindow
     /\ \E t \in VideoTimes, rec \in HandRecognitions : LoadedData(t, rec[1], rec[2])
  \/ /\ HandWindow
     /\ \E t \in VideoTimes, rec \in HandRecognitions : AnimationFrame(t, rec[1], rec[2])
  \/ /\ uTime < HandMaxFrames
     /\ Frame(FrameDelta)

HandSpec == Init /\ [][HandNext]_vars

(***************************************************************************)
(* The camera: the prediction loop with and without hands and the Open     *)
(* Palm gesture, the rendered frames at two frame times, and the mouse on  *)
(* the orbit controls.  The frames run to RigMaxFrames.                    *)
(***************************************************************************)
RigMaxFrames == 2

\* a frame three quarters of a second after the last (a stalled main thread)
StalledDelta == Dyadic(3, 0 - 2)

RigDeltas == {FrameDelta, StalledDelta}

RigGestures == {<<>>, << <<[categoryName |-> "Open_Palm", score |-> Decimal(9, 10)]>> >>}

RigHandInputs ==
  { NoHandInput,
    [landmarks |-> <<LandmarksA>>, handedness |-> <<Category("Right")>>],
    [landmarks |-> <<LandmarksA, LandmarksB>>,
     handedness |-> <<Category("Right"), Category("Left")>>] }

RigRecognitions == {<<FALSE, <<r>> >> : r \in ResultsOf(RigGestures, RigHandInputs)}

\* where the mouse leaves the camera (within the limits of the controls)
OrbitPositions ==
  {InitialCamera, [radius |-> Dyadic(30, 0), theta |-> FOne, phi |-> FOne]}

RigNext ==
  \/ ModelLoaded(TRUE)
  \/ CameraGranted
  \/ \E t \in VideoTimes, rec \in RigRecognitions : LoadedData(t, rec[1], rec[2])
  \/ \E t \in VideoTimes, rec \in RigRecognitions : AnimationFrame(t, rec[1], rec[2])
  \/ \E position \in OrbitPositions : OrbitDrag(position)
  \/ /\ uTime < RigMaxFrames
     /\ \E delta \in RigDeltas : Frame(delta)

RigSpec == Init /\ [][RigNext]_vars

(***************************************************************************)
(* CameraRig as a component: its props (hands, gestureState) are drawn     *)
(* from the sets below and the frames run at three frame times.            *)
(***************************************************************************)
HandAt(x, y, active) ==
  [x |-> SignedDyadic(x, 0 - 1), y |-> SignedDyadic(y, 0 - 1), active |-> active]

\* hands given in half world units: x = -10 and 10, pairs and single hands
\* with the same average, and an inactive hand with coordinates of its own
CameraHands ==
  { [left |-> HandAt(0 - 20, 0, TRUE), right |-> HandAt(20, 0, TRUE)],
    [left |-> HandAt(20, 0, TRUE), right |-> HandAt(0 - 20, 0, TRUE)],
    [left |-> HandAt(0 - 15, 10, TRUE), right |-> HandAt(15, 0 - 10, TRUE)],
    [left |-> HandAt(0, 0, TRUE), right |-> InactiveHand],
    [left |-> InactiveHand, right |-> HandAt(0, 0, TRUE)],
    [left |-> HandAt(10, 0, TRUE), right |-> HandAt(30, 0, TRUE)],
    [left |-> HandAt(20, 0, TRUE), right |-> HandAt(20, 0, TRUE)],
    [left |-> HandAt(20, 0, TRUE), right |-> InactiveHand],
    [left |-> InactiveHand, right |-> HandAt(20, 0, TRUE)],
    [left |-> HandAt(20, 0, TRUE), right |-> HandAt(0 - 15, 7, FALSE)],
    [left |-> HandAt(0 - 15, 7, FALSE), right |-> HandAt(0 - 29, 20, TRUE)],
    [left |-> HandAt(0 - 28, 19, TRUE), right |-> HandAt(0 - 30, 21, TRUE)],
    NoHands }

CameraStates == {"IDLE", "SPREAD"}

CameraDeltas == {FZero, FrameDelta, StalledDelta}

CameraInit ==
  /\ hands \in CameraHands
  /\ gestureState \in CameraStates
  /\ isRaining = FALSE
  /\ isStormy = FALSE
  /\ isPlayingMusic = FALSE
  /\ baseColor = "#1a4dcc"
  /\ detectedGestureName = "None"
  /\ loaded = FALSE
  /\ error = "null"
  /\ gestureRecognizerRef = "null"
  /\ lastVideoTimeRef = 0 - 1
  /\ requestRef = "none"
  /\ initPc = "awaitModel"
  /\ srcObject = "null"
  /\ loadedDataFired = FALSE
  /\ results = <<>>
  /\ mounted = TRUE
  /\ videoRef = "video"
  /\ tracks = "none"
  /\ uTime = 0
  /\ uFormRatio = FZero
  /\ uSpreadRatio = FZero
  /\ uRainRatio = FZero
  /\ uWaveRatio = FZero
  /\ uBaseColor = "#1a4dcc"
  /\ uLeftHandPos = Vec3(FZero, FZero, FZero)
  /\ uLeftHandActive = FZero
  /\ uRightHandPos = Vec3(FZero, FZero, FZero)
  /\ uRightHandActive = FZero
  /\ targetForm = 0
  /\ targetSpread = 0
  /\ targetRain = 0
  /\ targetWave = 0
  /\ camera = InitialCamera
  /\ rigTargets = <<>>

CameraNext ==
  /\ uTime < RigMaxFrames
  /\ \E delta \in CameraDeltas : Frame(delta)

CameraSpec == CameraInit /\ [][CameraNext]_vars

(***************************************************************************)
(* What a step of the prediction loop processed.                           *)
(***************************************************************************)
\* this step ran the recognizer on a fresh video frame and processed a result
\* whose first hand has a first category
HasCategory ==
  /\ lastVideoTimeRef' # lastVideoTimeRef
  /\ results' # <<>>
  /\ Len(results'[1].gestures) > 0
  /\ Len(results'[1].gestures[1]) > 0

EventLabel == results'[1].gestures[1][1].categoryName

EventScore == results'[1].gestures[1][1].score

\* the same of the last result processed, read in a state
LastHasCategory ==
  /\ results # <<>>
  /\ Len(results[1].gestures) > 0
  /\ Len(results[1].gestures[1]) > 0

LastLabel == results[1].gestures[1][1].categoryName

LastScore == results[1].gestures[1][1].score

Confidence25 == Decimal(25, 100)

Confidence50 == Decimal(5, 10)

Confidence51 == Decimal(51, 100)

Confidence90 == Decimal(9, 10)

AtOrBelowThreshold == {Confidence25, Confidence50}

AboveThreshold == {Confidence51, Confidence90}

\* the mapping table of the specification
Tabled(label, gs, rain, storm) ==
  CASE label = "Closed_Fist" -> <<"TREES", rain, storm>>
    [] label = "Open_Palm"   -> <<"SPREAD", rain, storm>>
    [] label = "Victory"     -> <<gs, TRUE, storm>>
    [] label = "Thumb_Up"    -> <<gs, rain, TRUE>>
    [] label = "Pointing_Up" -> <<"IDLE", FALSE, FALSE>>
    [] OTHER                 -> <<gs, rain, storm>>

(***************************************************************************)
(* The controller's properties (under Spec).                               *)
(***************************************************************************)
\* C1: a gesture registers only at a confidence strictly above 0.5.  For every
\* label, a processed event at confidence 0.5 or lower changes neither the
\* discrete state nor raining/stormy and is reported as "None"; at confidence
\* 0.51 it is reported by its name and its tabled effect is applied.
C1_StrictThreshold ==
  [][HasCategory =>
       /\ EventScore \in AtOrBelowThreshold =>
            /\ UNCHANGED <<gestureState, isRaining, isStormy>>
            /\ detectedGestureName' = "None"
       /\ EventScore = Confidence51 =>
            /\ detectedGestureName' = EventLabel
            /\ <<gestureState', isRaining', isStormy'>>
                 = Tabled(EventLabel, gestureState, isRaining, isStormy)]_vars

\* a fist at exactly 0.5 was processed after an open palm had registered: the
\* state is still SPREAD and the label shown is "None"
C1_Witness ==
  /\ LastHasCategory
  /\ LastLabel = "Closed_Fist"
  /\ LastScore = Confidence50
  /\ gestureState = "SPREAD"
  /\ detectedGestureName = "None"

\* C2: one-way latch.  In every step (a tick of the prediction loop with any
\* event, or a command of the control panel) raining goes from true to false
\* only if the step processed a Pointing_Up above the threshold; the same for
\* stormy.
C2_OneWayLatch ==
  [][/\ isRaining /\ ~isRaining' =>
          HasCategory /\ EventLabel = "Pointing_Up" /\ EventScore \in AboveThreshold
     /\ isStormy /\ ~isStormy' =>
          HasCategory /\ EventLabel = "Pointing_Up" /\ EventScore \in AboveThreshold]_vars

\* raining and stormy are both set and the last event processed was a
\* registered Victory: the repeated Victory did not toggle raining off
C2_Witness ==
  /\ isRaining
  /\ isStormy
  /\ LastHasCategory
  /\ LastLabel = "Victory"
  /\ LastScore \in AboveThreshold
  /\ isPlayingMusic

\* C3: each registered label has exactly its tabled effect.  Closed_Fist sets
\* the state to TREES, Open_Palm sets it to SPREAD, both leaving raining and
\* stormy; Victory sets raining and leaves the state and stormy; Thumb_Up sets
\* stormy and leaves the state and raining.
C3_TabledEffects ==
  [][HasCategory /\ EventScore \in AboveThreshold =>
       /\ EventLabel = "Closed_Fist" =>
            gestureState' = "TREES" /\ UNCHANGED <<isRaining, isStormy>>
       /\ EventLabel = "Open_Palm" =>
            gestureState' = "SPREAD" /\ UNCHANGED <<isRaining, isStormy>>
       /\ EventLabel = "Victory" =>
            isRaining' = TRUE /\ UNCHANGED <<gestureState, isStormy>>
       /\ EventLabel = "Thumb_Up" =>
            isStormy' = TRUE /\ UNCHANGED <<gestureState, isRaining>>]_vars

\* a Thumb_Up registered in state SPREAD while it was not raining
C3_Witness ==
  /\ LastHasCategory
  /\ LastLabel = "Thumb_Up"
  /\ LastScore = Confidence51
  /\ isStormy
  /\ ~isRaining
  /\ gestureState = "SPREAD"

\* C4: full reset.  A step that processes a Pointing_Up above the threshold,
\* from whatever state, leaves the state IDLE and raining and stormy false.
C4_FullReset ==
  [][HasCategory /\ EventLabel = "Pointing_Up" /\ EventScore \in AboveThreshold =>
       gestureState' = "IDLE" /\ ~isRaining' /\ ~isStormy']_vars

\* the reset has acted: the last event processed is a registered Pointing_Up
C4_Witness ==
  /\ LastHasCategory
  /\ LastLabel = "Pointing_Up"
  /\ LastScore \in AboveThreshold
  /\ detectedGestureName = "Pointing_Up"
  /\ gestureState = "IDLE"
  /\ ~isRaining
  /\ ~isStormy

\* C5 as claimed: an event with a label outside the five known ones, at any
\* confidence, changes neither the state nor the flags and is reported as "None".
C5_UnknownReportedNone ==
  [][HasCategory /\ EventLabel \notin KnownGestures =>
       /\ UNCHANGED <<gestureState, isRaining, isStormy>>
       /\ detectedGestureName' = "None"]_vars

\* C5 as amended: an event with a label outside the five known ones, at any
\* confidence, changes neither the state nor the flags; it is reported as
\* "None" at a confidence of 0.5 or lower, and by its own label above 0.5.
C5_UnknownNoEffect ==
  [][HasCategory /\ EventLabel \notin KnownGestures =>
       /\ UNCHANGED <<gestureState, isRaining, isStormy>>
       /\ detectedGestureName' =
            IF EventScore \in AboveThreshold THEN EventLabel ELSE "None"]_vars

\* a Thumb_Down above the threshold was processed in a state that is not the
\* initial one; it is shown by its name
C5_Witness ==
  /\ LastHasCategory
  /\ LastLabel = "Thumb_Down"
  /\ LastScore = Confidence90
  /\ detectedGestureName = "Thumb_Down"
  /\ gestureState = "TREES"
  /\ isRaining

\* C11 as claimed: once the detector is torn down, whatever the interleaving
\* of the cleanup with the model's initialisation, the camera's acquisition and
\* 'loadeddata', the stream's tracks are not left live and no prediction
\* callback is pending.
C11_TeardownReleases ==
  ~mounted => tracks # "live" /\ requestRef # "pending"

\* the landmark processing of the result this step processed threw
ProcessingThrew ==
  /\ results' # <<>>
  /\ \E i \in 1..Len(results'[1].landmarks) : results'[1].landmarks[i].lm9 = <<>>

\* C12 as claimed: when a tick that runs inference has an exception thrown
\* while the result is obtained or processed, the discrete state, the flags,
\* the reported label and both hand entries keep their values, and the next
\* tick is scheduled.
C12_ExceptionKeepsState ==
  [][(lastVideoTimeRef' # lastVideoTimeRef /\ (results' = <<>> \/ ProcessingThrew)) =>
       /\ UNCHANGED <<gestureState, isRaining, isStormy, detectedGestureName, hands>>
       /\ requestRef' = "pending"]_vars

\* a tick of the prediction loop, with the recognizer and the video element
\* there, on a video time equal to the stored one (what the recognizer would
\* have returned is immaterial)
StaleTick ==
  /\ gestureRecognizerRef # "null"
  /\ videoRef # "null"
  /\ \/ AnimationFrame(lastVideoTimeRef, FALSE, <<>>)
     \/ LoadedData(lastVideoTimeRef, FALSE, <<>>)

\* C13: a tick on the video time last processed skips inference: the published
\* state (label, discrete state, flags, hands) is unchanged and the next tick
\* is scheduled; and the stored time changes only in a step that ran inference
\* on a new video time, which schedules the next tick too.
C13_StaleTickSkips ==
  [][/\ StaleTick =>
          /\ UNCHANGED <<gestureState, isRaining, isStormy, detectedGestureName,
                         hands, lastVideoTimeRef>>
          /\ results' = <<>>
          /\ requestRef' = "pending"
     /\ lastVideoTimeRef' = lastVideoTimeRef =>
          UNCHANGED <<gestureState, isRaining, isStormy, detectedGestureName, hands>>
     /\ lastVideoTimeRef' # lastVideoTimeRef =>
          lastVideoTimeRef' \in VideoTimes /\ requestRef' = "pending"]_vars

\* after a registered Victory with a hand in view, a later tick processed
\* nothing: the label, the flag and the hand are still there
C13_Witness ==
  /\ results = <<>>
  /\ requestRef = "pending"
  /\ lastVideoTimeRef \in VideoTimes
  /\ detectedGestureName = "Victory"
  /\ isRaining
  /\ hands.right.active

\* the state the gesture detector publishes to the App
Published == <<gestureState, isRaining, isStormy, detectedGestureName, hands>>

\* C17: once the model's initialisation has failed or the camera was denied,
\* the error status stays, the prediction loop does not run (no callback is
\* pending, no video time is stored) and nothing is published.
C17_ErrorIsFinal ==
  [][error # "null" =>
       /\ error' = error
       /\ requestRef = "none" /\ requestRef' = "none"
       /\ lastVideoTimeRef' = lastVideoTimeRef
       /\ Published' = Published /\ Published = <<"IDLE", FALSE, FALSE, "None", NoHands>>]_vars

\* the camera was denied after the model had loaded, and the control panel has
\* been used since
C17_Witness ==
  /\ error = "Camera access denied"
  /\ loaded
  /\ gestureRecognizerRef = "recognizer"
  /\ requestRef = "none"
  /\ isPlayingMusic
  /\ baseColor = "#ffd700"

(***************************************************************************)
(* The rendering's properties (under RenderSpec and LongSpec).  A step is  *)
(* a rendered frame exactly when it advances uTime; the targets of that    *)
(* frame are the primed target variables.                                  *)
(***************************************************************************)
\* C6 as claimed: in every frame targetSpread is 1 when the discrete state is
\* SPREAD and 0 in every other state, whatever raining and stormy are.
C6_SpreadIffSpread ==
  [][uTime' # uTime =>
       targetSpread' = IF gestureState = "SPREAD" THEN 1 ELSE 0]_vars

\* C6 as amended: in every frame targetSpread is 1 when the discrete state is
\* SPREAD and stormy is false, and 0 otherwise, whatever raining is.
C6_SpreadUnlessStormy ==
  [][uTime' # uTime =>
       targetSpread' = IF gestureState = "SPREAD" /\ ~isStormy THEN 1 ELSE 0]_vars

\* a frame was rendered in state SPREAD during a storm: its targetSpread is 0
C6_Witness ==
  /\ uTime > 0
  /\ gestureState = "SPREAD"
  /\ isStormy
  /\ targetSpread = 0
  /\ targetForm = 1

\* C7: in every frame targetForm is 1 if the state is TREES or stormy is true,
\* otherwise 1 if the state is SPREAD, otherwise 0; so it is 0 exactly when the
\* state is IDLE and stormy is false.
C7_TargetForm ==
  [][uTime' # uTime =>
       /\ targetForm' = IF gestureState = "TREES" \/ isStormy THEN 1
                        ELSE IF gestureState = "SPREAD" THEN 1
                        ELSE 0
       /\ targetForm' = 0 <=> (gestureState = "IDLE" /\ ~isStormy)]_vars

\* a frame was rendered in state IDLE during a storm: its targetForm is 1
C7_Witness ==
  /\ uTime > 0
  /\ gestureState = "IDLE"
  /\ isStormy
  /\ targetForm = 1
  /\ targetWave = 1

\* the target of a frame as a double
TargetValue(target) == IF target = 1 THEN FOne ELSE FZero

\* a ratio away from its target moves strictly closer to it and stays strictly
\* on its side of it
StrictlyCloser(ratio, target, next) ==
  /\ FLess(ratio, target) => FLess(ratio, next) /\ FLess(next, target)
  /\ FLess(target, ratio) => FLess(next, ratio) /\ FLess(target, next)

\* a ratio away from its target moves no farther from it and stays strictly
\* on its side of it
NeverFarther(ratio, target, next) ==
  /\ FLess(ratio, target) => FLeq(ratio, next) /\ FLess(next, target)
  /\ FLess(target, ratio) => FLeq(next, ratio) /\ FLess(target, next)

\* C8 as claimed: on every frame each ratio that differs from its target
\* becomes strictly closer to the target, on the same side of it, and neither
\* equal to it nor past it.
C8_StrictlyCloser ==
  [][uTime' # uTime =>
       /\ StrictlyCloser(uFormRatio, TargetValue(targetForm'), uFormRatio')
       /\ StrictlyCloser(uSpreadRatio, TargetValue(targetSpread'), uSpreadRatio')
       /\ StrictlyCloser(uRainRatio, TargetValue(targetRain'), uRainRatio')
       /\ StrictlyCloser(uWaveRatio, TargetValue(targetWave'), uWaveRatio')]_vars

\* C8 as amended: on every frame each ratio that differs from its target
\* becomes no farther from the target (closer, or unchanged once the doubles
\* cannot represent a closer value), on the same side of it, and neither equal
\* to it nor past it.
C8_NeverFarther ==
  [][uTime' # uTime =>
       /\ NeverFarther(uFormRatio, TargetValue(targetForm'), uFormRatio')
       /\ NeverFarther(uSpreadRatio, TargetValue(targetSpread'), uSpreadRatio')
       /\ NeverFarther(uRainRatio, TargetValue(targetRain'), uRainRatio')
       /\ NeverFarther(uWaveRatio, TargetValue(targetWave'), uWaveRatio')]_vars

\* the form ratio has been smoothed towards 1 through the whole long run and is
\* still below it
C8_Witness ==
  /\ uTime = LongRetargetFrame
  /\ gestureState = "TREES"
  /\ targetForm = 1
  /\ FLess(Confidence90, uFormRatio)
  /\ FLess(uFormRatio, FOne)

Ratio95 == Decimal(95, 100)

\* the last event processed is a Closed_Fist at confidence 0.9, with neither
\* rain nor storm
FistScenario ==
  /\ LastHasCategory
  /\ LastLabel = "Closed_Fist"
  /\ LastScore = Confidence90
  /\ ~isRaining
  /\ ~isStormy

\* C9: after a Closed_Fist at confidence 0.9 with all ratios 0, the state is
\* TREES, the next frame has targetForm 1, and after 75 further frames with no
\* other event formRatio is greater than 0.95.
C9_FistScenario ==
  (FistScenario /\ uTime < RetargetFrame) =>
     /\ gestureState = "TREES"
     /\ uTime >= 1 => targetForm = 1
     /\ uTime >= 76 => FLess(Ratio95, uFormRatio)

\* the 76th frame after the fist
C9_Witness ==
  /\ FistScenario
  /\ uTime = 76
  /\ targetForm = 1
  /\ FLess(Ratio95, uFormRatio)

InUnitInterval(ratio) == FLeq(FZero, ratio) /\ FLeq(ratio, FOne)

\* C10: in every reachable state each of the four ratios lies in [0,1]; they
\* are 0 until the first frame, and only a rendered frame changes them.
C10_RatiosBounded ==
  /\ [](/\ InUnitInterval(uFormRatio)
        /\ InUnitInterval(uSpreadRatio)
        /\ InUnitInterval(uRainRatio)
        /\ InUnitInterval(uWaveRatio)
        /\ uTime = 0 =>
             <<uFormRatio, uSpreadRatio, uRainRatio, uWaveRatio>>
               = <<FZero, FZero, FZero, FZero>>)
  /\ [][uTime' = uTime =>
          UNCHANGED <<uFormRatio, uSpreadRatio, uRainRatio, uWaveRatio>>]_vars

\* after the frames the ratios have moved: form, rain and wave strictly between
\* 0 and 1, spread still 0
C10_Witness ==
  /\ uTime = RetargetFrame
  /\ FLess(FZero, uFormRatio) /\ FLess(uFormRatio, FOne)
  /\ FLess(FZero, uRainRatio) /\ FLess(uRainRatio, FOne)
  /\ FLess(FZero, uWaveRatio) /\ FLess(uWaveRatio, FOne)
  /\ uSpreadRatio = FZero

(***************************************************************************)
(* The hands' properties (under HandSpec).                                 *)
(***************************************************************************)
\* particles 4 and 12 world units from a hand: inside and outside the radius
ProbeInside == Dyadic(4, 0)

ProbeOutside == Dyadic(12, 0)

\* in the frame of this step the hand with the given published flag and
\* activity uniform acts as its flag says
ActsAsFlagged(flag, uniform) ==
  /\ ~flag => ~HandInteracts(uniform, ProbeInside) /\ ~HandInteracts(uniform, ProbeOutside)
  /\ flag => HandInteracts(uniform, ProbeInside)

\* C18 as claimed: in every frame a hand whose published active flag is false
\* adds no displacement and no glow to any particle, and a hand whose flag is
\* true displaces the particles within radius 8.0 of it.
C18_FlagGatesInteraction ==
  [][uTime' # uTime =>
       /\ ActsAsFlagged(hands.left.active, uLeftHandActive')
       /\ ActsAsFlagged(hands.right.active, uRightHandActive')]_vars

\* the frame of this step is at least the 7th in a row with the same hands
\* (results arrive only before frame 1 and before frame HandRetargetFrame + 1)
SettledFrame ==
  \/ uTime' >= 7 /\ uTime' <= HandRetargetFrame
  \/ uTime' >= HandRetargetFrame + 7

\* C18 as amended: a hand whose published flag has been false throughout the
\* last 7 frames adds no displacement and no glow, and a hand whose flag has
\* been true throughout the last 7 frames displaces the particles within
\* radius 8.0 of it; in no frame does a hand reach a particle beyond the
\* radius.
C18_SettledFlagGatesInteraction ==
  [][uTime' # uTime =>
       /\ ~HandInteracts(uLeftHandActive', ProbeOutside)
       /\ ~HandInteracts(uRightHandActive', ProbeOutside)
       /\ SettledFrame =>
            /\ ActsAsFlagged(hands.left.active, uLeftHandActive')
            /\ ActsAsFlagged(hands.right.active, uRightHandActive')]_vars

\* seven frames after the left hand left the view its activity uniform is
\* still positive but the hand no longer interacts, while the right hand does
C18_Witness ==
  /\ uTime = HandRetargetFrame + 7
  /\ ~hands.left.active
  /\ FLess(FZero, uLeftHandActive)
  /\ ~HandInteracts(uLeftHandActive, ProbeInside)
  /\ hands.right.active
  /\ HandInteracts(uRightHandActive, ProbeInside)

ActiveSlots(h) ==
  (IF h.left.active THEN 1 ELSE 0) + (IF h.right.active THEN 1 ELSE 0)

\* C19 as claimed: after every result processed without an exception, with n
\* landmark sets and whatever the handedness array holds, exactly n of the two
\* hand slots are active and an inactive slot is {x: 0, y: 0, active: false}.
C19_SlotPerHand ==
  [][(lastVideoTimeRef' # lastVideoTimeRef /\ results' # <<>> /\ ~ProcessingThrew) =>
       /\ ActiveSlots(hands') = Len(results'[1].landmarks)
       /\ ~hands'.left.active => hands'.left = InactiveHand
       /\ ~hands'.right.active => hands'.right = InactiveHand]_vars

(***************************************************************************)
(* The camera's properties.                                                *)
(***************************************************************************)
NoHandActive == ~hands.left.active /\ ~hands.right.active

\* C14 (under RigSpec): in a frame in which no hand is active the camera rig
\* leaves the camera's position, and with it its orientation, unchanged.
C14_IdleRigLeavesCamera ==
  [][(uTime' # uTime /\ NoHandActive) => camera' = camera]_vars

\* the rig moved the camera in earlier frames and now, the hands gone, leaves
\* it where it is
C14_Witness ==
  /\ uTime = RigMaxFrames
  /\ NoHandActive
  /\ rigTargets = <<>>
  /\ camera \notin OrbitPositions

\* new lies between prev and target (the ends included)
Between(prev, new, target) ==
  \/ FLeq(prev, new) /\ FLeq(new, target)
  \/ FLeq(target, new) /\ FLeq(new, prev)

\* C15 as claimed (under CameraSpec): in every frame with an active hand and
\* for every delta >= 0, each of radius, azimuth and polar angle after the
\* update lies between its previous value and its target.
C15_NoOvershoot ==
  [][(uTime' # uTime /\ ~NoHandActive) =>
       /\ rigTargets' # <<>>
       /\ Between(camera.radius, camera'.radius, rigTargets'[1].targetRadius)
       /\ Between(camera.theta, camera'.theta, rigTargets'[1].targetAzimuth)
       /\ Between(camera.phi, camera'.phi, rigTargets'[1].targetPolar)]_vars

\* the sum of the x of the active hands of h, and their number; the hands of
\* CameraHands are whole numbers of half units, so the sums and the products
\* below are exact
ActiveSumX(h) ==
  FAdd(IF h.left.active THEN h.left.x ELSE FZero,
       IF h.right.active THEN h.right.x ELSE FZero)

ActiveCount(h) ==
  (IF h.left.active THEN 1 ELSE 0) + (IF h.right.active THEN 1 ELSE 0)

\* g and h have active hands with the same average x
SameAverageX(g, h) ==
  /\ ActiveCount(g) > 0
  /\ ActiveCount(h) > 0
  /\ FEq(FMul(ActiveSumX(g), Dyadic(ActiveCount(h), 0)),
         FMul(ActiveSumX(h), Dyadic(ActiveCount(g), 0)))

TenApart(h) ==
  /\ h.left.active
  /\ h.right.active
  /\ \/ FEq(h.left.x, SignedDyadic(0 - 10, 0)) /\ FEq(h.right.x, Dyadic(10, 0))
     \/ FEq(h.left.x, Dyadic(10, 0)) /\ FEq(h.right.x, SignedDyadic(0 - 10, 0))

\* C16 (under CameraSpec): the azimuth target of a frame depends only on the
\* average x of the active hands: it is the target of every other choice of
\* hands with the same average, whatever an inactive hand's coordinates are,
\* and it is 0 for two active hands at x = -10 and x = 10.
C16_AzimuthFromAverage ==
  rigTargets # <<>> =>
    /\ \A h \in CameraHands :
         SameAverageX(hands, h) => rigTargets[1].targetAzimuth = TargetAzimuth(h)
    /\ TenApart(hands) => FEq(rigTargets[1].targetAzimuth, FZero)

\* a frame ran with hands at x = -10 and x = 10
C16_Witness ==
  /\ rigTargets # <<>>
  /\ TenApart(hands)
  /\ hands.left.x.neg

\* C20 (under RigSpec): the orbit controls are enabled exactly when no hand
\* is active, the rig writes the camera in a frame exactly when a hand is
\* active, and the camera moves only by the rig's write (a hand active) or by
\* the orbit controls (no hand active).
C20_OneCameraOwner ==
  [][/\ OrbitControlsEnabled(hands) <=> NoHandActive
     /\ uTime' # uTime => (rigTargets' # <<>> <=> ~NoHandActive)
     /\ uTime' # uTime => (rigTargets' # <<>> <=> ~OrbitControlsEnabled(hands))
     /\ camera' # camera =>
          \/ uTime' # uTime /\ rigTargets' # <<>> /\ ~NoHandActive
          \/ uTime' = uTime /\ OrbitControlsEnabled(hands) /\ NoHandActive]_vars

\* the right hand alone drives the camera: the rig wrote it in the last frame
\* and the orbit controls are disabled
C20_Witness ==
  /\ uTime > 0
  /\ hands.right.active
  /\ ~hands.left.active
  /\ rigTargets # <<>>
  /\ ~OrbitControlsEnabled(hands)
  /\ camera \notin OrbitPositions

====
